---- MODULE Spec2Model ----
(***************************************************************************)
(* Persistence model of backend/api/models/db.py: the tables user,         *)
(* user_setting and conversation (single-table inheritance on "type"),     *)
(* with the constraints the mapped columns declare.  Rows are inserted and *)
(* updated through ORM sessions; a commit either stores the change or      *)
(* fails with the constraint that rejected it and stores nothing.          *)
(***************************************************************************)
EXTENDS Integers, FiniteSets

VARIABLES user, user_setting, conversation, result, tx

vars == <<user, user_setting, conversation, result, tx>>

(* ------------------------------ bounds ---------------------------------- *)
MaxUsers == 3
MaxSettings == 3
MaxConversations == 3

Usernames == {"alice", "bob"}
ConversationIds == {"uuid_a", "uuid_b"}
Titles == {"NULL", "chat"}
Times == {1}
Tx == {1, 2}

(* NULL of a string column, and NULL of an integer or timestamp column.     *)
NULL == "NULL"
NullId == 0

(* --------------------- externally supplied enumerations ----------------- *)
RevChatModels == {"gpt_4", "gpt_4_browsing"}
ApiChatModels == {"gpt_4", "gpt_3_5_turbo"}
ModelValues == RevChatModels \cup ApiChatModels \cup {NULL}

ConversationClasses == {"BaseConversation", "RevConversation", "ApiConversation"}

(* The discriminator values the mapped classes use.                         *)
ConversationTypes == {"base", "rev", "api"}

(* What a caller passes for is_valid when it constructs a conversation:     *)
(* nothing, True or False.                                                  *)
IsValidInputs == {<<>>, <<TRUE>>, <<FALSE>>}

(* ------------------------------ schema ---------------------------------- *)
(* __mapper_args__: the discriminator value a class stores in "type".       *)
PolymorphicIdentity(cls) ==
    CASE cls = "BaseConversation" -> "base"
      [] cls = "RevConversation" -> "rev"
      [] cls = "ApiConversation" -> "api"

(* Integer primary keys: the next autoincrement id of a table whose rows    *)
(* are never deleted.                                                       *)
NextId(table) == Cardinality(table) + 1

(* User.username: unique=True.                                              *)
UsernameUniqueOff(username) == TRUE

UsernameUnique(username) == \A u \in user : u.username # username

(* ForeignKey("user.id"): the referenced user row exists.  Whether the      *)
(* store enforces a declared foreign key depends on the backend: a row that *)
(* references no stored user is rejected by one backend and stored by       *)
(* another, so both outcomes are possible.                                  *)
UserExists(uid) == \E u \in user : u.id = uid

(* UserSetting.user_id: Mapped[int], ForeignKey("user.id"); the column is   *)
(* NOT NULL and carries no unique constraint.                               *)
SettingUserIdStatus(uid) ==
    IF uid = NullId THEN {"NotNullViolation"}
    ELSE IF ~UserExists(uid) THEN {"ForeignKeyViolation", "ok"}
    ELSE {"ok"}

(* UserSetting.credits: default=0.                                          *)
CreditsDefault == 0

(* BaseConversation.conversation_id: unique=True on the one table that      *)
(* holds the rows of every variant.                                         *)
ConversationIdUniqueAmongValid(cid) ==
    \A c \in conversation : c.is_valid => c.conversation_id # cid

ConversationIdUniqueOff(cid) == TRUE

ConversationIdUnique(cid) == \A c \in conversation : c.conversation_id # cid

(* The same constraint when a stored row is given another conversation_id.  *)
ConversationIdFree(cid, id) ==
    \A c \in conversation : c.id # id => c.conversation_id # cid

(* BaseConversation.is_valid: Mapped[bool] with no default, so the column   *)
(* is NOT NULL and the caller has to supply it.                             *)
IsValidStatus(valid) == IF valid = <<>> THEN {"NotNullViolation"} ELSE {"ok"}

(* BaseConversation.user_id: Optional[int], ForeignKey("user.id").          *)
ConversationUserIdStatus(uid) ==
    IF uid # NullId /\ ~UserExists(uid) THEN {"ForeignKeyViolation", "ok"}
    ELSE {"ok"}

(* current_model: BaseConversation maps it as Optional[str]; the subclasses *)
(* redeclare it with use_existing_column=True, which maps the column the    *)
(* superclass table already has, so the stored column is the string column  *)
(* for every variant and takes any string or NULL.                          *)
CurrentModelAccepted(type, model) == model \in ModelValues

(* User.setting and User.conversations: the rows whose user_id is the       *)
(* user's id.                                                               *)
UserSettings(uid) == {s \in user_setting : s.user_id = uid}

UserConversationsById(uid) == {c \in conversation : c.id = uid}

UserConversations(uid) == {c \in conversation : c.user_id = uid}

(* ------------------------------ rows ------------------------------------ *)
NewUser(username) == [id |-> NextId(user), username |-> username]

NewUserSetting(uid) ==
    [id |-> NextId(user_setting), user_id |-> uid, credits |-> CreditsDefault]

(* The row a constructor call stores: type from the mapper, the columns the *)
(* caller passes, and NULL timestamps.                                      *)
NewConversation(cls, cid, model, title, uid, valid) ==
    [id |-> NextId(conversation),
     type |-> PolymorphicIdentity(cls),
     conversation_id |-> cid,
     current_model |-> model,
     title |-> title,
     user_id |-> uid,
     is_valid |-> valid[1],
     update_time |-> NullId]

(* What the last operation was, the unique key it tried to insert (NULL for *)
(* an operation without one) and how it ended.                              *)
Outcome(op, key, status) == [op |-> op, key |-> key, status |-> status]

NoTx == [op |-> "none"]

(* ------------------------------ inserts --------------------------------- *)
(* A User is constructed together with its paired UserSetting.              *)
InsertUser(username) ==
    /\ Cardinality(user) < MaxUsers
    /\ IF UsernameUnique(username)
       THEN /\ user' = user \cup {NewUser(username)}
            /\ user_setting' = user_setting \cup {NewUserSetting(NextId(user))}
            /\ result' = Outcome("create_user", username, "ok")
       ELSE /\ result' = Outcome("create_user", username, "UniqueConstraintViolation")
            /\ UNCHANGED <<user, user_setting>>
    /\ UNCHANGED conversation

InsertUserSetting(uid) ==
    /\ Cardinality(user_setting) < MaxSettings
    /\ \E status \in SettingUserIdStatus(uid) :
         /\ result' = Outcome("create_setting", NULL, status)
         /\ IF status = "ok"
            THEN user_setting' = user_setting \cup {NewUserSetting(uid)}
            ELSE UNCHANGED user_setting
    /\ UNCHANGED <<user, conversation>>

InsertConversation(cls, cid, model, title, uid, valid) ==
    /\ Cardinality(conversation) < MaxConversations
    /\ \E status \in
            IF ~CurrentModelAccepted(PolymorphicIdentity(cls), model)
            THEN {"InvalidModelForVariant"}
            ELSE IF IsValidStatus(valid) # {"ok"} THEN IsValidStatus(valid)
            ELSE IF ~ConversationIdUnique(cid) THEN {"UniqueConstraintViolation"}
            ELSE ConversationUserIdStatus(uid) :
         /\ result' = Outcome("create_conversation", cid, status)
         /\ IF status = "ok"
            THEN conversation' =
                   conversation \cup
                     {NewConversation(cls, cid, model, title, uid, valid)}
            ELSE UNCHANGED conversation
    /\ UNCHANGED <<user, user_setting>>

(* ------------------------------ updates --------------------------------- *)
Row(id) == CHOOSE c \in conversation : c.id = id

Stored(id) == \E c \in conversation : c.id = id

Replace(id, row) == (conversation \ {Row(id)}) \cup {row}

SetCurrentModel(id, model) ==
    /\ Stored(id)
    /\ IF CurrentModelAccepted(Row(id).type, model)
       THEN /\ conversation' = Replace(id, [Row(id) EXCEPT !.current_model = model])
            /\ result' = Outcome("set_model", NULL, "ok")
       ELSE /\ result' = Outcome("set_model", NULL, "InvalidModelForVariant")
            /\ UNCHANGED conversation
    /\ UNCHANGED <<user, user_setting, tx>>

SetTitle(id, title) ==
    /\ Stored(id)
    /\ conversation' = Replace(id, [Row(id) EXCEPT !.title = title])
    /\ result' = Outcome("set_title", NULL, "ok")
    /\ UNCHANGED <<user, user_setting, tx>>

SetUpdateTime(id, now) ==
    /\ Stored(id)
    /\ conversation' = Replace(id, [Row(id) EXCEPT !.update_time = now])
    /\ result' = Outcome("set_update_time", NULL, "ok")
    /\ UNCHANGED <<user, user_setting, tx>>

SetIsValid(id, valid) ==
    /\ Stored(id)
    /\ conversation' = Replace(id, [Row(id) EXCEPT !.is_valid = valid])
    /\ result' = Outcome("set_is_valid", NULL, "ok")
    /\ UNCHANGED <<user, user_setting, tx>>

(* type is a mapped column like the others: a write to it is flushed.       *)
SetType(id, type) ==
    /\ Stored(id)
    /\ conversation' = Replace(id, [Row(id) EXCEPT !.type = type])
    /\ result' = Outcome("set_type", NULL, "ok")
    /\ UNCHANGED <<user, user_setting, tx>>

SetConversationId(id, cid) ==
    /\ Stored(id)
    /\ IF ConversationIdFree(cid, id)
       THEN /\ conversation' = Replace(id, [Row(id) EXCEPT !.conversation_id = cid])
            /\ result' = Outcome("set_conversation_id", cid, "ok")
       ELSE /\ result' = Outcome("set_conversation_id", cid,
                                 "UniqueConstraintViolation")
            /\ UNCHANGED conversation
    /\ UNCHANGED <<user, user_setting, tx>>

SetUserId(id, uid) ==
    /\ Stored(id)
    /\ \E status \in ConversationUserIdStatus(uid) :
         /\ result' = Outcome("set_user_id", NULL, status)
         /\ IF status = "ok"
            THEN conversation' = Replace(id, [Row(id) EXCEPT !.user_id = uid])
            ELSE UNCHANGED conversation
    /\ UNCHANGED <<user, user_setting, tx>>

(* ------------------- one transaction at a time -------------------------- *)
CreateUser(username) == InsertUser(username) /\ UNCHANGED tx

CreateUserSetting(uid) == InsertUserSetting(uid) /\ UNCHANGED tx

CreateConversation(cls, cid, model, title, uid, valid) ==
    InsertConversation(cls, cid, model, title, uid, valid) /\ UNCHANGED tx

Init ==
    /\ user = {}
    /\ user_setting = {}
    /\ conversation = {}
    /\ result = Outcome("none", NULL, "ok")
    /\ tx = [t \in Tx |-> NoTx]

AccountNext ==
    \/ \E n \in Usernames : CreateUser(n)
    \/ \E uid \in 0..MaxUsers : CreateUserSetting(uid)

ConversationNext ==
    \/ \E cls \in ConversationClasses, cid \in ConversationIds,
          m \in ModelValues, t \in Titles, uid \in 0..MaxUsers,
          v \in IsValidInputs :
            CreateConversation(cls, cid, m, t, uid, v)
    \/ \E id \in 1..MaxConversations, m \in ModelValues : SetCurrentModel(id, m)
    \/ \E id \in 1..MaxConversations, t \in Titles : SetTitle(id, t)
    \/ \E id \in 1..MaxConversations, now \in Times : SetUpdateTime(id, now)
    \/ \E id \in 1..MaxConversations, v \in BOOLEAN : SetIsValid(id, v)
    \/ \E id \in 1..MaxConversations, t \in ConversationTypes : SetType(id, t)
    \/ \E id \in 1..MaxConversations, cid \in ConversationIds :
          SetConversationId(id, cid)
    \/ \E id \in 1..MaxConversations, uid \in 0..MaxUsers : SetUserId(id, uid)

Next == AccountNext \/ ConversationNext

Spec == Init /\ [][Next]_vars

(* ---------------- the account tables on their own ----------------------- *)
SpecAccounts == Init /\ [][AccountNext]_vars

(* ------------- users and the conversations they own --------------------- *)
(* Conversations are constructed untitled and valid.                       *)
OwnershipNext ==
    \/ \E n \in Usernames : CreateUser(n)
    \/ \E cls \in ConversationClasses, cid \in ConversationIds,
          m \in ModelValues, uid \in 0..MaxUsers, v \in {<<TRUE>>} :
            CreateConversation(cls, cid, m, NULL, uid, v)

SpecOwnership == Init /\ [][OwnershipNext]_vars

(* ------- the conversation table, with one user already registered ------- *)
StoredUserIds == {u.id : u \in user}

RegisteredInit ==
    /\ user = {[id |-> 1, username |-> "alice"]}
    /\ user_setting = {[id |-> 1, user_id |-> 1, credits |-> CreditsDefault]}
    /\ conversation = {}
    /\ result = Outcome("create_user", "alice", "ok")
    /\ tx = [t \in Tx |-> NoTx]

(* Conversations are constructed untitled and the writes are those to the  *)
(* columns that identify a row, its variant, its model and its validity.    *)
LifecycleNext ==
    \/ \E cls \in ConversationClasses, cid \in ConversationIds,
          m \in ModelValues, uid \in {NullId} \cup StoredUserIds,
          v \in IsValidInputs :
            CreateConversation(cls, cid, m, NULL, uid, v)
    \/ \E id \in 1..MaxConversations, m \in ModelValues : SetCurrentModel(id, m)
    \/ \E id \in 1..MaxConversations, v \in BOOLEAN : SetIsValid(id, v)
    \/ \E id \in 1..MaxConversations, t \in ConversationTypes : SetType(id, t)
    \/ \E id \in 1..MaxConversations, cid \in ConversationIds :
          SetConversationId(id, cid)
    \/ \E id \in 1..MaxConversations, uid \in {NullId} \cup StoredUserIds :
          SetUserId(id, uid)

SpecConversations == RegisteredInit /\ [][LifecycleNext]_vars

(* Conversations without model or owner, and the writes to their title,    *)
(* update time and validity.                                                *)
MetadataNext ==
    \/ \E cls \in ConversationClasses, cid \in ConversationIds,
          t \in Titles, v \in IsValidInputs :
            CreateConversation(cls, cid, NULL, t, NullId, v)
    \/ \E id \in 1..MaxConversations, t \in Titles : SetTitle(id, t)
    \/ \E id \in 1..MaxConversations, now \in Times : SetUpdateTime(id, now)
    \/ \E id \in 1..MaxConversations, v \in BOOLEAN : SetIsValid(id, v)

SpecMetadata == RegisteredInit /\ [][MetadataNext]_vars

(* ------------------- two concurrent transactions ------------------------ *)
(* A session stages an insert (add) and commits later; the constraints are  *)
(* checked when the commit flushes the row, against the rows committed by   *)
(* then.                                                                    *)
TxRequests ==
    {[op |-> "create_setting", user_id |-> uid] : uid \in StoredUserIds}
    \cup {[op |-> "create_conversation", cls |-> cls, conversation_id |-> cid] :
            cls \in {"RevConversation", "ApiConversation"}, cid \in ConversationIds}

TxAdd(t, req) ==
    /\ tx[t] = NoTx
    /\ tx' = [tx EXCEPT ![t] = req]
    /\ UNCHANGED <<user, user_setting, conversation, result>>

TxCommit(t) ==
    /\ tx[t] # NoTx
    /\ \/ /\ tx[t].op = "create_setting"
          /\ InsertUserSetting(tx[t].user_id)
       \/ /\ tx[t].op = "create_conversation"
          /\ InsertConversation(tx[t].cls, tx[t].conversation_id, NULL, NULL,
                                NullId, <<TRUE>>)
    /\ tx' = [tx EXCEPT ![t] = NoTx]

TxNext ==
    \/ \E t \in Tx, req \in TxRequests : TxAdd(t, req)
    \/ \E t \in Tx : TxCommit(t)

SpecTx == RegisteredInit /\ [][TxNext]_vars

(* ======================= properties of the schema ======================= *)
SameUsername(n) == {u \in user : u.username = n}

(* C1: creating a user whose username is already stored fails with          *)
(* UniqueConstraintViolation and leaves the stored users unchanged, a       *)
(* creation with a new username succeeds, and in every reachable state no   *)
(* two stored users share a username.                                       *)
C1_UsernameUnique ==
    /\ [](\A u1, u2 \in user : u1.username = u2.username => u1 = u2)
    /\ [][\A n \in Usernames :
            CreateUser(n) =>
              IF SameUsername(n) # {}
              THEN /\ user' = user
                   /\ user_setting' = user_setting
                   /\ result' = Outcome("create_user", n, "UniqueConstraintViolation")
              ELSE /\ \E u \in user' \ user : u.username = n
                   /\ result' = Outcome("create_user", n, "ok")]_vars

C1_Witness ==
    /\ result = Outcome("create_user", "bob", "UniqueConstraintViolation")
    /\ {u.username : u \in user} = Usernames

(* C2: at most one UserSetting row is stored per user: a second row for a   *)
(* user that already has one is never stored.                               *)
C2_OneSettingPerUser ==
    \A u \in user : Cardinality(UserSettings(u.id)) <= 1

(* C3: no two stored conversation rows have the same conversation_id,       *)
(* whatever their variants; a creation whose conversation_id is stored      *)
(* fails and stores nothing, and a creation that succeeds stores one row    *)
(* with a conversation_id that was not stored (the only other rejection is  *)
(* that of a row constructed without is_valid).                             *)
C3_ConversationIdUnique ==
    /\ [](\A c1, c2 \in conversation :
            c1.conversation_id = c2.conversation_id => c1 = c2)
    /\ [][result'.op = "create_conversation" =>
            IF \E c \in conversation : c.conversation_id = result'.key
            THEN /\ conversation' = conversation
                 /\ result'.status \in {"UniqueConstraintViolation",
                                        "NotNullViolation"}
            ELSE \/ /\ \E d \in conversation' \ conversation :
                         /\ d.conversation_id = result'.key
                         /\ conversation' = conversation \cup {d}
                    /\ result'.status = "ok"
                 \/ /\ conversation' = conversation
                    /\ result'.status = "NotNullViolation"]_vars

C3_Witness ==
    /\ result.op = "create_conversation"
    /\ result.status = "UniqueConstraintViolation"
    /\ \E c1, c2 \in conversation :
         /\ c1.type = "rev" /\ c2.type = "api"
         /\ c1.conversation_id # c2.conversation_id
         /\ c2.conversation_id = result.key

(* C4: every stored rev row has current_model null or in RevChatModels and  *)
(* every stored api row has current_model null or in ApiChatModels.         *)
C4_ModelLegalForVariant ==
    \A c \in conversation :
      /\ c.type = "rev" => c.current_model \in RevChatModels \cup {NULL}
      /\ c.type = "api" => c.current_model \in ApiChatModels \cup {NULL}

(* C5: the discriminator of a stored conversation row never changes.        *)
C5_TypeImmutable ==
    [][\A c \in conversation, d \in conversation' :
         d.id = c.id => d.type = c.type]_vars

(* C6: once a conversation row has is_valid = false it has is_valid = false *)
(* in every later state.                                                    *)
C6_InvalidationOneWay ==
    [][\A c \in conversation, d \in conversation' :
         (d.id = c.id /\ ~c.is_valid) => ~d.is_valid]_vars

(* C7: every stored user has exactly one UserSetting row, with credits 0    *)
(* from its creation.                                                       *)
C7_ExactlyOneSetting ==
    \A u \in user :
      /\ Cardinality(UserSettings(u.id)) = 1
      /\ \A s \in UserSettings(u.id) : s.credits = 0

(* C8: invalidating a conversation keeps the row stored with is_valid =     *)
(* false and every other column unchanged, touches no other row, and the    *)
(* conversation_id of an invalid row stays reserved: a creation with it     *)
(* fails and stores nothing.                                                *)
C8_InvalidateFrame ==
    [][/\ result'.op = "set_is_valid" =>
            /\ \E c \in conversation, d \in conversation' :
                 /\ d.id = c.id
                 /\ d.conversation_id = c.conversation_id
                 /\ d.type = c.type
                 /\ d.current_model = c.current_model
                 /\ d.title = c.title
                 /\ d.user_id = c.user_id
                 /\ d.update_time = c.update_time
                 /\ conversation' \ {d} = conversation \ {c}
            /\ user' = user
            /\ user_setting' = user_setting
       /\ (/\ result'.op = "create_conversation"
           /\ \E c \in conversation :
                ~c.is_valid /\ c.conversation_id = result'.key)
          => /\ conversation' = conversation
             /\ result'.status \in {"UniqueConstraintViolation",
                                    "NotNullViolation"}]_vars

C8_Witness ==
    /\ result.op = "create_conversation"
    /\ result.status = "UniqueConstraintViolation"
    /\ Cardinality(conversation) = 1
    /\ \A c \in conversation :
         /\ ~c.is_valid
         /\ c.user_id # NullId
         /\ c.current_model # NULL
         /\ c.conversation_id = result.key

(* C9: under every interleaving of two transactions, no reachable state     *)
(* holds two conversation rows with the same conversation_id or two         *)
(* UserSetting rows with the same user_id.                                  *)
C9_RacesSerialized ==
    /\ \A c1, c2 \in conversation :
         c1.conversation_id = c2.conversation_id => c1 = c2
    /\ \A s1, s2 \in user_setting : s1.user_id = s2.user_id => s1 = s2

(* C10: a conversation created with the id of a stored user and a model of  *)
(* its variant's enumeration is in that user's conversation set with the    *)
(* variant and model it was created with; a user's conversation set is      *)
(* exactly the stored rows whose user_id is the user's id, and a row with a *)
(* null user_id is in no user's set.                                        *)
LegalModels(cls) ==
    CASE cls = "BaseConversation" -> ModelValues
      [] cls = "RevConversation" -> RevChatModels
      [] cls = "ApiConversation" -> ApiChatModels

C10_ConversationsOfUser ==
    /\ [](\A u \in user, c \in conversation :
            /\ c \in UserConversations(u.id) <=> c.user_id = u.id
            /\ c.user_id = NullId => c \notin UserConversations(u.id))
    /\ [][(result'.op = "create_conversation" /\ result'.status = "ok") =>
            \A cls \in ConversationClasses, m \in ModelValues,
               t \in Titles, uid \in StoredUserIds, v \in IsValidInputs :
              (/\ m \in LegalModels(cls)
               /\ CreateConversation(cls, result'.key, m, t, uid, v))
              => \E d \in UserConversations(uid)' :
                   /\ d.conversation_id = result'.key
                   /\ d.current_model = m
                   /\ d.type = CASE cls = "BaseConversation" -> "base"
                                 [] cls = "RevConversation" -> "rev"
                                 [] cls = "ApiConversation" -> "api"]_vars

C10_Witness ==
    /\ result.op = "create_conversation"
    /\ result.status = "ok"
    /\ Cardinality(user) = 2
    /\ \E u \in user, c1, c2 \in conversation :
         /\ c1.user_id = u.id
         /\ c1.type = "rev"
         /\ c1.current_model = "gpt_4_browsing"
         /\ c1 \in UserConversations(u.id)
         /\ c2.user_id = NullId

====
